---- MODULE Spec2Model ----
(***************************************************************************)
(* State-machine model of the user authentication service                  *)
(* (0x03-user_authentication_service): the users table behind DB, the      *)
(* bcrypt helpers, the uuid generator and the operations of class Auth.    *)
(***************************************************************************)
EXTENDS Integers, Sequences, FiniteSets, TLC

\* ---------------------------------------------------------------- bounds
\* number of uuids the generator may hand out in one behaviour
MaxTokens == 2

\* number of rows in the table where DB methods are called directly
MaxDbRows == 1

\* ---------------------------------------------------------------- values
\* Python None in the nullable columns, in token arguments and in returned
\* users (ids start at 1, uuids at 1, so 0 is never a real id or uuid)
None == 0

Emails == {"a@x.com", "b@x.com"}
Passwords == {"pw1", "pw2"}
Tokens == 1..MaxTokens

\* request.form.get(...) of a field the request does not carry: Python None
\* where the model carries a string
Missing == "<missing>"

\* request.cookies.get / request.form.get of a token sent empty: ""
Empty == -1

VARIABLES
    users,     \* rows of table `users`, in insertion order; users[i].id = i
    uuids,     \* how many uuids _generate_uuid has returned so far
    last,      \* the last Auth call: operation, arguments, outcome
    curpw,     \* history: curpw[i] = plaintext most recently set for user i
    redeemed,  \* history: reset tokens a successful update_password consumed
    replaced,  \* history: reset tokens overwritten by a newer one while held
    needs_rollback,  \* the DB session's transaction failed in a flush and was not rolled back
    dirty,     \* attribute assignments <<id, key, value>> the DB session holds uncommitted
    race       \* the two calls in flight when Auth methods run step by step

\* the state that only the HTTP surface and the step-by-step runs change
aux == <<needs_rollback, dirty, race>>

vars == <<users, uuids, last, curpw, redeemed, replaced, needs_rollback, dirty, race>>

\* ---------------------------------------------------------------- bcrypt
\* bcrypt.hashpw(password.encode('utf-8'), bcrypt.gensalt()): a bytes value.
\* The output embeds the salt gensalt() drew and checkpw reads it back from
\* there, so what checkpw answers depends on the hashed password only; the
\* model keeps that and the Python type of the value, and not the salt.
hashpw(password) == [type |-> "bytes", pw |-> password]

\* bytes.decode('utf-8'): the same characters as a str
decode(b) == [b EXCEPT !.type = "str"]

\* hasattr(x, 'encode'): str has .encode, bytes has not
has_encode(x) == x.type = "str"

\* str.encode('utf-8'): the same characters as bytes
encode(s) == [s EXCEPT !.type = "bytes"]

\* bcrypt.checkpw(password, hashed): re-derive with the salt embedded in
\* `hashed` and compare
checkpw(password, hashed) == hashpw(password) = hashed

\* Auth._hash_password / DB._hash_password
hash_password(password) == hashpw(password)

\* ---------------------------------------------------------------- uuid
\* a generator that returns the same value every time
generate_uuid_same(n) == 1

\* Auth._generate_uuid: a value never returned before (n returned so far)
generate_uuid(n) == n + 1

\* ---------------------------------------------------------------- DB
\* User(email=..., hashed_password=...): nullable columns default to NULL
User(id, email, hashed_password) ==
    [id |-> id, email |-> email, hashed_password |-> hashed_password,
     session_id |-> None, reset_token |-> None]

UserAttrs == {"id", "email", "hashed_password", "session_id", "reset_token"}

\* what else hasattr finds on a User: the attributes of the declarative Base
BaseAttrs == {"metadata"}

\* hasattr(user, key)
hasattr(key) == key \in UserAttrs \cup BaseAttrs

\* setattr(user, key, value): a column changes the row, any other attribute
\* only the Python object
setattr(u, key, value) == IF key \in UserAttrs THEN [u EXCEPT ![key] = value] ELSE u

\* add_user over a table whose email column is UNIQUE: the second insert of
\* an email does not get in
add_user_unique(us, email, hashed_password) ==
    IF \E i \in 1..Len(us) : us[i].email = email THEN us
    ELSE Append(us, User(Len(us) + 1, email, hashed_password))

\* DB.add_user: insert and commit; the primary key autoincrements
add_user(us, email, hashed_password) ==
    Append(us, User(Len(us) + 1, email, hashed_password))

\* rows selected by query(User).filter_by(field=value); value None is
\* rendered as `field IS NULL`, which selects the rows whose field is NULL
filter_by(us, field, value) == {i \in 1..Len(us) : us[i][field] = value}

\* DB.find_user_by: Query.one() over the selected rows
find_user_by(us, field, value) ==
    LET rows == filter_by(us, field, value) IN
    IF rows = {} THEN [exc |-> "NoResultFound", id |-> None]
    ELSE IF Cardinality(rows) > 1 THEN [exc |-> "MultipleResultsFound", id |-> None]
    ELSE [exc |-> "None", id |-> CHOOSE i \in rows : TRUE]

\* the loop of DB.update_user over kwargs.items(), a sequence of <<key, value>>
RECURSIVE set_attrs(_, _)
set_attrs(u, kwargs) ==
    IF kwargs = <<>> THEN [exc |-> "None", user |-> u]
    ELSE IF ~hasattr(kwargs[1][1]) THEN [exc |-> "ValueError", user |-> u]
    ELSE set_attrs(setattr(u, kwargs[1][1], kwargs[1][2]), Tail(kwargs))

\* DB.update_user: find by id, setattr each key, commit
update_user(us, user_id, kwargs) ==
    LET found == find_user_by(us, "id", user_id) IN
    IF found.exc # "None" THEN [exc |-> found.exc, users |-> us]
    ELSE LET r == set_attrs(us[found.id], kwargs) IN
         IF r.exc # "None" THEN [exc |-> r.exc, users |-> us]
         ELSE [exc |-> "None", users |-> [us EXCEPT ![found.id] = r.user]]

\* ---------------------------------------------------------------- Auth, results
\* Each operator gives the outcome of one Auth method on table `us`:
\* exc is the exception that leaves the method ("None" if it returns),
\* ret the returned value, users the table afterwards.

\* get_user_from_session_id without the early return for None
get_user_from_session_id_nonull(us, session_id) ==
    LET found == find_user_by(us, "session_id", session_id) IN
    IF found.exc # "None" THEN [exc |-> "None", ret |-> None]
    ELSE [exc |-> "None", ret |-> found.id]

\* Auth.get_user_from_session_id: the id of the returned User, or None
get_user_from_session_id(us, session_id) ==
    IF session_id = None THEN [exc |-> "None", ret |-> None]
    ELSE LET found == find_user_by(us, "session_id", session_id) IN
         IF found.exc # "None" THEN [exc |-> "None", ret |-> None]
         ELSE [exc |-> "None", ret |-> found.id]

\* Auth.valid_login
valid_login(us, email, password) ==
    LET found == find_user_by(us, "email", email) IN
    IF found.exc = "NoResultFound" THEN [exc |-> "None", ret |-> FALSE]
    ELSE IF found.exc # "None" THEN [exc |-> found.exc, ret |-> FALSE]
    ELSE IF password = Missing THEN [exc |-> "AttributeError", ret |-> FALSE]
    ELSE IF ~has_encode(us[found.id].hashed_password)
         THEN [exc |-> "AttributeError", ret |-> FALSE]
    ELSE [exc |-> "None",
          ret |-> checkpw(password, encode(us[found.id].hashed_password))]

\* register_user without the lookup that refuses a known email
register_user_nocheck(us, email, password) ==
    [exc |-> "None", ret |-> Len(us) + 1,
     users |-> add_user(us, email, decode(hash_password(password)))]

\* Auth.register_user
register_user(us, email, password) ==
    LET found == find_user_by(us, "email", email) IN
    IF found.exc = "None" THEN [exc |-> "ValueError", ret |-> None, users |-> us]
    ELSE IF found.exc # "NoResultFound" THEN [exc |-> found.exc, ret |-> None, users |-> us]
    \* _hash_password(None): None has no .encode
    ELSE IF password = Missing THEN [exc |-> "AttributeError", ret |-> None, users |-> us]
    \* add_user(None, ...): column email is nullable=False, the commit fails
    ELSE IF email = Missing THEN [exc |-> "IntegrityError", ret |-> None, users |-> us]
    ELSE [exc |-> "None", ret |-> Len(us) + 1,
          users |-> add_user(us, email, decode(hash_password(password)))]

\* create_session that lets NoResultFound out, as its docstring announces
create_session_raise(us, n, email) ==
    LET found == find_user_by(us, "email", email) IN
    IF found.exc # "None" THEN [exc |-> found.exc, ret |-> None, users |-> us, uuids |-> n]
    ELSE LET session_id == generate_uuid(n)
             upd == update_user(us, found.id, << <<"session_id", session_id>> >>)
         IN [exc |-> upd.exc, ret |-> session_id, users |-> upd.users, uuids |-> n + 1]

\* create_session that keeps a session_id the row already holds
create_session_keep(us, n, email) ==
    LET found == find_user_by(us, "email", email) IN
    IF found.exc = "NoResultFound" THEN [exc |-> "None", ret |-> None, users |-> us, uuids |-> n]
    ELSE IF found.exc # "None" THEN [exc |-> found.exc, ret |-> None, users |-> us, uuids |-> n]
    ELSE LET session_id == generate_uuid(n)
             upd == IF us[found.id].session_id = None
                    THEN update_user(us, found.id, << <<"session_id", session_id>> >>)
                    ELSE [exc |-> "None", users |-> us]
         IN [exc |-> upd.exc, ret |-> session_id, users |-> upd.users, uuids |-> n + 1]

\* Auth.create_session, n uuids returned so far
create_session(us, n, email) ==
    LET found == find_user_by(us, "email", email) IN
    IF found.exc = "NoResultFound" THEN [exc |-> "None", ret |-> None, users |-> us, uuids |-> n]
    ELSE IF found.exc # "None" THEN [exc |-> found.exc, ret |-> None, users |-> us, uuids |-> n]
    ELSE LET session_id == generate_uuid(n)
             upd == update_user(us, found.id, << <<"session_id", session_id>> >>)
         IN [exc |-> upd.exc, ret |-> session_id, users |-> upd.users, uuids |-> n + 1]

\* destroy_session that clears the session_id of every row
destroy_session_all(us, user_id) ==
    [exc |-> "None", ret |-> None,
     users |-> [i \in 1..Len(us) |-> [us[i] EXCEPT !.session_id = None]]]

\* destroy_session clearing the wrong column
destroy_session_wrongcol(us, user_id) ==
    LET found == find_user_by(us, "id", user_id) IN
    IF found.exc # "None" THEN [exc |-> "None", ret |-> None, users |-> us]
    ELSE LET upd == update_user(us, found.id, << <<"reset_token", None>> >>)
         IN [exc |-> "None", ret |-> None, users |-> upd.users]

\* Auth.destroy_session
destroy_session(us, user_id) ==
    LET found == find_user_by(us, "id", user_id) IN
    IF found.exc # "None" THEN [exc |-> "None", ret |-> None, users |-> us]
    ELSE LET upd == update_user(us, found.id, << <<"session_id", None>> >>)
         IN [exc |-> "None", ret |-> None, users |-> upd.users]

\* get_reset_password_token returning None for an unknown email
get_reset_password_token_silent(us, n, email) ==
    LET found == find_user_by(us, "email", email) IN
    IF found.exc = "NoResultFound" THEN [exc |-> "None", ret |-> None, users |-> us, uuids |-> n]
    ELSE IF found.exc # "None" THEN [exc |-> found.exc, ret |-> None, users |-> us, uuids |-> n]
    ELSE LET reset_token == generate_uuid(n)
             upd == update_user(us, found.id, << <<"reset_token", reset_token>> >>)
         IN [exc |-> upd.exc, ret |-> reset_token, users |-> upd.users, uuids |-> n + 1]

\* get_reset_password_token that stores a token only when the row has none
get_reset_password_token_keep(us, n, email) ==
    LET found == find_user_by(us, "email", email) IN
    IF found.exc = "NoResultFound" THEN [exc |-> "ValueError", ret |-> None, users |-> us, uuids |-> n]
    ELSE IF found.exc # "None" THEN [exc |-> found.exc, ret |-> None, users |-> us, uuids |-> n]
    ELSE LET reset_token == generate_uuid(n)
             upd == IF us[found.id].reset_token = None
                    THEN update_user(us, found.id, << <<"reset_token", reset_token>> >>)
                    ELSE [exc |-> "None", users |-> us]
         IN [exc |-> upd.exc, ret |-> reset_token, users |-> upd.users, uuids |-> n + 1]

\* Auth.get_reset_password_token, n uuids returned so far
get_reset_password_token(us, n, email) ==
    LET found == find_user_by(us, "email", email) IN
    IF found.exc = "NoResultFound" THEN [exc |-> "ValueError", ret |-> None, users |-> us, uuids |-> n]
    ELSE IF found.exc # "None" THEN [exc |-> found.exc, ret |-> None, users |-> us, uuids |-> n]
    ELSE LET reset_token == generate_uuid(n)
             upd == update_user(us, found.id, << <<"reset_token", reset_token>> >>)
         IN [exc |-> upd.exc, ret |-> reset_token, users |-> upd.users, uuids |-> n + 1]

\* update_password that also ends the user's session
update_password_logout(us, reset_token, password) ==
    LET found == find_user_by(us, "reset_token", reset_token) IN
    IF found.exc = "NoResultFound" THEN [exc |-> "ValueError", ret |-> None, users |-> us]
    ELSE IF found.exc # "None" THEN [exc |-> found.exc, ret |-> None, users |-> us]
    ELSE LET hashed_password == hash_password(password)
             upd == update_user(us, found.id,
                        << <<"hashed_password", hashed_password>>,
                           <<"reset_token", None>>,
                           <<"session_id", None>> >>)
         IN [exc |-> upd.exc, ret |-> None, users |-> upd.users]

\* update_password that leaves reset_token in place
update_password_noclear(us, reset_token, password) ==
    LET found == find_user_by(us, "reset_token", reset_token) IN
    IF found.exc = "NoResultFound" THEN [exc |-> "ValueError", ret |-> None, users |-> us]
    ELSE IF found.exc # "None" THEN [exc |-> found.exc, ret |-> None, users |-> us]
    ELSE LET hashed_password == hash_password(password)
             upd == update_user(us, found.id,
                        << <<"hashed_password", hashed_password>> >>)
         IN [exc |-> upd.exc, ret |-> None, users |-> upd.users]

\* Auth.update_password
update_password(us, reset_token, password) ==
    LET found == find_user_by(us, "reset_token", reset_token) IN
    IF found.exc = "NoResultFound" THEN [exc |-> "ValueError", ret |-> None, users |-> us]
    ELSE IF found.exc # "None" THEN [exc |-> found.exc, ret |-> None, users |-> us]
    ELSE LET hashed_password == hash_password(password)
             upd == update_user(us, found.id,
                        << <<"hashed_password", hashed_password>>,
                           <<"reset_token", None>> >>)
         IN [exc |-> upd.exc, ret |-> None, users |-> upd.users]

\* ---------------------------------------------------------------- calls
\* user ids a caller may pass: those of the rows and one that is never assigned
UserIds == 1..(Cardinality(Emails) + 1)

\* The record kept of a call: its arguments (email, password, token, uid;
\* "" or None when the operation does not take one), the exception that left it
\* ("None" if it returned), the value it returned, and `held`, the value the
\* column the call writes had in the target row before the call (None
\* without a target row).
Call(op, email, password, token, uid, held, exc, ret) ==
    [op |-> op, email |-> email, password |-> password, token |-> token,
     uid |-> uid, held |-> held, exc |-> exc, ret |-> ret]

\* id of the row with this email, None without one
IdOf(us, email) == find_user_by(us, "email", email).id

\* column `field` of the row with id `uid`, None without such a row
Held(us, uid, field) == IF uid \in 1..Len(us) THEN us[uid][field] ELSE None

Init ==
    /\ users = <<>>
    /\ uuids = 0
    /\ last = Call("init", "", "", None, None, None, "None", None)
    /\ curpw = <<>>
    /\ redeemed = {}
    /\ replaced = {}
    /\ needs_rollback = FALSE
    /\ dirty = {}
    /\ race = <<>>

\* AUTH.register_user(email, password)
RegisterUser ==
    \E email \in Emails, password \in Passwords :
        LET r == register_user(users, email, password) IN
        /\ users' = r.users
        /\ last' = Call("register_user", email, password, None, None, None, r.exc, r.ret)
        /\ curpw' = IF r.exc = "None" THEN Append(curpw, password) ELSE curpw
        /\ UNCHANGED <<uuids, redeemed, replaced>>
        /\ UNCHANGED aux

\* AUTH.valid_login(email, password)
ValidLogin ==
    \E email \in Emails, password \in Passwords :
        LET r == valid_login(users, email, password) IN
        /\ last' = Call("valid_login", email, password, None, None, None, r.exc, r.ret)
        /\ UNCHANGED <<users, uuids, curpw, redeemed, replaced>>
        /\ UNCHANGED aux

\* AUTH.create_session(email)
CreateSession ==
    \E email \in Emails :
        LET r == create_session(users, uuids, email) IN
        /\ r.uuids <= MaxTokens
        /\ users' = r.users
        /\ uuids' = r.uuids
        /\ last' = Call("create_session", email, "", None, None,
                        Held(users, IdOf(users, email), "session_id"), r.exc, r.ret)
        /\ UNCHANGED <<curpw, redeemed, replaced>>
        /\ UNCHANGED aux

\* AUTH.get_user_from_session_id(session_id)
GetUserFromSessionId ==
    \E session_id \in Tokens \cup {None} :
        LET r == get_user_from_session_id(users, session_id) IN
        /\ last' = Call("get_user_from_session_id", "", "", session_id, None, None, r.exc, r.ret)
        /\ UNCHANGED <<users, uuids, curpw, redeemed, replaced>>
        /\ UNCHANGED aux

\* AUTH.destroy_session(user_id)
DestroySession ==
    \E user_id \in UserIds :
        LET r == destroy_session(users, user_id) IN
        /\ users' = r.users
        /\ last' = Call("destroy_session", "", "", None, user_id,
                        Held(users, user_id, "session_id"), r.exc, r.ret)
        /\ UNCHANGED <<uuids, curpw, redeemed, replaced>>
        /\ UNCHANGED aux

\* AUTH.get_reset_password_token(email)
GetResetPasswordToken ==
    \E email \in Emails :
        LET r == get_reset_password_token(users, uuids, email) IN
        /\ r.uuids <= MaxTokens
        /\ users' = r.users
        /\ uuids' = r.uuids
        /\ last' = Call("get_reset_password_token", email, "", None, None,
                        Held(users, IdOf(users, email), "reset_token"), r.exc, r.ret)
        /\ replaced' = replaced \cup
                           (IF r.exc = "None"
                            THEN {Held(users, IdOf(users, email), "reset_token")} \ {None}
                            ELSE {})
        /\ UNCHANGED <<curpw, redeemed>>
        /\ UNCHANGED aux

\* AUTH.update_password(reset_token, password)
UpdatePassword ==
    \E reset_token \in Tokens \cup {None}, password \in Passwords :
        LET r == update_password(users, reset_token, password)
            uid == find_user_by(users, "reset_token", reset_token).id
        IN
        /\ users' = r.users
        /\ last' = Call("update_password", "", password, reset_token, uid, None, r.exc, r.ret)
        /\ curpw' = IF r.exc = "None" THEN [curpw EXCEPT ![uid] = password] ELSE curpw
        /\ redeemed' = IF r.exc = "None" /\ reset_token # None
                       THEN redeemed \cup {reset_token} ELSE redeemed
        /\ UNCHANGED <<uuids, replaced>>
        /\ UNCHANGED aux

Next ==
    \/ RegisterUser
    \/ ValidLogin
    \/ CreateSession
    \/ GetUserFromSessionId
    \/ DestroySession
    \/ GetResetPasswordToken
    \/ UpdatePassword

Spec == Init /\ [][Next]_vars

\* ---------------------------------------------------------------- typing
TypeOK ==
    /\ uuids \in 0..MaxTokens
    /\ Len(users) <= Cardinality(Emails)
    /\ \A i \in 1..Len(users) :
          /\ users[i].id = i
          /\ users[i].email \in Emails
          /\ users[i].session_id \in (1..uuids) \cup {None}
          /\ users[i].reset_token \in (1..uuids) \cup {None}
    /\ Len(curpw) = Len(users)
    /\ redeemed \subseteq 1..uuids
    /\ replaced \subseteq 1..uuids

\* ---------------------------------------------------------------- helpers of the properties
Registered(us, email) == \E i \in 1..Len(us) : us[i].email = email

\* the outcome of a call that returns None
ReturnsNone == [exc |-> "None", ret |-> None]

\* uuids the generator has returned so far
Issued == 1..uuids

\* ---------------------------------------------------------------- C1
\* C1: register_user(e, p) for an email without a record succeeds and adds
\* exactly one record, for e; register_user(e, p2) for an email that has a
\* record raises ValueError and leaves the table unchanged, whatever p2.
C1_Step ==
    last'.op = "register_user" =>
        IF Registered(users, last'.email)
        THEN /\ last'.exc = "ValueError"
             /\ users' = users
        ELSE /\ last'.exc = "None"
             /\ Len(users') = Len(users) + 1
             /\ SubSeq(users', 1, Len(users)) = users
             /\ users'[Len(users')].email = last'.email
             /\ last'.ret = Len(users')

C1_RegisterOnce == [][C1_Step]_vars

\* a second registration of an email, with another password, was refused
\* while both emails have a record
C1_Witness ==
    /\ last.op = "register_user"
    /\ last.exc = "ValueError"
    /\ last.password # curpw[IdOf(users, last.email)]
    /\ Len(users) = 2

\* ---------------------------------------------------------------- C2
\* C2: in every reachable state valid_login(e, p) returns True exactly when
\* a record with email e exists and p is the password most recently set for
\* it (by registration or by a successful update_password), and returns
\* False otherwise.
C2_ValidLoginIff ==
    \A e \in Emails, p \in Passwords :
        valid_login(users, e, p) =
            [exc |-> "None",
             ret |-> \E i \in 1..Len(users) : users[i].email = e /\ curpw[i] = p]

\* ---------------------------------------------------------------- C3
\* C3: create_session(e) for a registered e returns a token that
\* get_user_from_session_id resolves, right after the call, to the record
\* with email e; a token no record stores as session_id, and None, resolve
\* to None.
C3_SessionResolves ==
    /\ (last.op = "create_session" /\ Registered(users, last.email)) =>
          /\ last.exc = "None"
          /\ last.ret \in Tokens
          /\ get_user_from_session_id(users, last.ret) =
                [exc |-> "None", ret |-> IdOf(users, last.email)]
          /\ users[IdOf(users, last.email)].email = last.email
    /\ \A t2 \in Tokens \cup {None} :
          (t2 = None \/ \A i \in 1..Len(users) : users[i].session_id # t2) =>
              get_user_from_session_id(users, t2) = ReturnsNone

\* a session was created for one of two registered users, the other of
\* which has no session
C3_Witness ==
    /\ last.op = "create_session"
    /\ last.ret \in Tokens
    /\ Len(users) = 2
    /\ \E i \in 1..Len(users) : users[i].session_id = None

\* ---------------------------------------------------------------- C4
\* C4: right after destroy_session(uid) the token the row held resolves to
\* None; a token that resolves to None keeps doing so on every step that does
\* not create a session; and destroy_session(uid) called again raises
\* nothing and leaves the table as the first call left it.
C4_AfterDestroy ==
    (last.op = "destroy_session") =>
        /\ last.exc = "None"
        /\ last.held # None =>
              get_user_from_session_id(users, last.held) = ReturnsNone
        /\ destroy_session(users, last.uid) =
              [exc |-> "None", ret |-> None, users |-> users]

C4_StaysDead ==
    \A t \in Tokens :
        (/\ get_user_from_session_id(users, t).ret = None
         /\ last'.op # "create_session") =>
            get_user_from_session_id(users', t).ret = None

C4_DestroySession == [](C4_AfterDestroy) /\ [][C4_StaysDead]_vars

\* destroy_session was called for a user who held a live session token
C4_Witness ==
    /\ last.op = "destroy_session"
    /\ last.held \in Tokens
    /\ last.uid \in 1..Len(users)

\* ---------------------------------------------------------------- C5
\* C5: when update_password(t, newp) is called with the token t that
\* get_reset_password_token returned for e and that e's record holds, and
\* newp differs from e's current password oldp, the call succeeds and
\* afterwards valid_login(e, newp) returns True and valid_login(e, oldp)
\* returns False.
C5_Step ==
    \A i \in 1..Len(users) :
        (/\ last'.op = "update_password"
         /\ last'.token \in Tokens
         /\ users[i].reset_token = last'.token
         /\ last'.password # curpw[i]) =>
            /\ last'.exc = "None"
            /\ valid_login(users', users[i].email, last'.password) =
                  [exc |-> "None", ret |-> TRUE]
            /\ valid_login(users', users[i].email, curpw[i]) =
                  [exc |-> "None", ret |-> FALSE]

C5_ResetThenLogin == [][C5_Step]_vars

\* ---------------------------------------------------------------- C6
\* C6: after update_password(t, newp) succeeded for a reset token t, the
\* user's reset_token is None, no record holds t, and update_password(t, x)
\* raises ValueError and changes no record, for every x.
C6_SingleUse ==
    /\ (last.op = "update_password" /\ last.exc = "None" /\ last.token \in Tokens) =>
          /\ last.token \in redeemed
          /\ users[last.uid].reset_token = None
    /\ \A t \in redeemed :
          /\ \A i \in 1..Len(users) : users[i].reset_token # t
          /\ \A x \in Passwords :
                update_password(users, t, x) =
                    [exc |-> "ValueError", ret |-> None, users |-> users]

\* update_password was called with a token that had been redeemed before
C6_Witness ==
    /\ last.op = "update_password"
    /\ last.token \in redeemed
    /\ last.exc = "ValueError"

\* ---------------------------------------------------------------- C7
\* C7: get_reset_password_token(e) for an email without a record raises
\* ValueError, draws no uuid and leaves every record unchanged.
C7_Step ==
    (last'.op = "get_reset_password_token" /\ ~Registered(users, last'.email)) =>
        /\ last'.exc = "ValueError"
        /\ last'.ret = None
        /\ users' = users
        /\ uuids' = uuids

C7_ResetUnknownEmail == [][C7_Step]_vars

\* a reset token was asked for an unknown email while another user exists
C7_Witness ==
    /\ last.op = "get_reset_password_token"
    /\ last.exc = "ValueError"
    /\ ~Registered(users, last.email)
    /\ Len(users) = 1

\* ---------------------------------------------------------------- C8
\* C8: when create_session(e) returns t2 while e's record holds t1, then
\* right after the call t1 resolves to None and t2 is the only token that
\* resolves to that user; and a token that has been returned and resolves to
\* None never resolves again.
C8_AfterCreate ==
    (last.op = "create_session" /\ last.ret \in Tokens) =>
        /\ last.ret # last.held
        /\ last.held # None =>
              get_user_from_session_id(users, last.held) = ReturnsNone
        /\ \A t \in Tokens :
              get_user_from_session_id(users, t).ret = IdOf(users, last.email)
                  <=> t = last.ret

C8_StaysDead ==
    \A t \in Issued :
        get_user_from_session_id(users, t).ret = None =>
            get_user_from_session_id(users', t).ret = None

C8_OneLiveSession == [](C8_AfterCreate) /\ [][C8_StaysDead]_vars

\* create_session returned a second token for a user whose first was live
C8_Witness ==
    /\ last.op = "create_session"
    /\ last.ret \in Tokens
    /\ last.held \in Tokens

\* ---------------------------------------------------------------- C9
\* C9: when get_reset_password_token(e) returns t2 while e's record holds an
\* unredeemed t1, then right after the call t2 is the one token that
\* update_password accepts for e, and from then on update_password(t1, x)
\* raises ValueError and changes nothing, for every x.
C9_OneLiveReset ==
    /\ (last.op = "get_reset_password_token" /\ last.ret \in Tokens) =>
          /\ last.ret # last.held
          /\ last.held # None => last.held \in replaced
          /\ \A t \in Tokens, x \in Passwords :
                (/\ update_password(users, t, x).exc = "None"
                 /\ users[IdOf(users, last.email)].reset_token = t)
                    <=> t = last.ret
    /\ \A t1 \in replaced :
          /\ \A i \in 1..Len(users) : users[i].reset_token # t1
          /\ \A x \in Passwords :
                update_password(users, t1, x) =
                    [exc |-> "ValueError", ret |-> None, users |-> users]

\* update_password was refused for a token that a newer one had replaced,
\* while the newer one is still held
C9_Witness ==
    /\ last.op = "update_password"
    /\ last.exc = "ValueError"
    /\ last.token \in replaced
    /\ \E i \in 1..Len(users) : users[i].reset_token \in Tokens

\* ---------------------------------------------------------------- C10
\* C10: in every reachable state valid_login returns a boolean and
\* get_user_from_session_id a user or None, whatever the arguments; neither
\* raises.
C10_NoException ==
    /\ \A e \in Emails, p \in Passwords :
          /\ valid_login(users, e, p).exc = "None"
          /\ valid_login(users, e, p).ret \in BOOLEAN
    /\ \A t \in Tokens \cup {None} :
          /\ get_user_from_session_id(users, t).exc = "None"
          /\ get_user_from_session_id(users, t).ret \in {None} \cup (1..Len(users))

\* ---------------------------------------------------------------- HTTP surface
\* The six endpoints of app.py over the one AUTH object. A request carries
\* form fields and a cookie, any of which may be missing; the response is a
\* status, the session_id cookie it sets (None: it sets none) and a body.

FormEmails == Emails \cup {Missing}
FormPasswords == Passwords \cup {Missing}
FormTokens == Tokens \cup {None, Empty}

\* Python truth value of a form field (`not email`): None is false
\* (an empty string, false as well, is not among the fields the model sends)
falsy(x) == x = Missing

\* Python truth value of a token field or cookie: None and "" are false
falsy_token(x) == x \in {None, Empty}

\* Whatever the handler does not catch becomes Flask's 500 response
InternalServerError == 500

Body(email, message, reset_token) ==
    [email |-> email, message |-> message, reset_token |-> reset_token]

NoBody == Body("", "", None)

\* outcome of a handler: the response, the table and the uuid count
\* afterwards, and whether it left the DB session waiting for a rollback
Response(status, set_cookie, body, us, n, broken) ==
    [status |-> status, set_cookie |-> set_cookie, body |-> body,
     users |-> us, uuids |-> n, needs_rollback |-> broken]

\* A commit that fails in its flush (IntegrityError) leaves the Session's
\* transaction inactive, and nothing in db.py calls rollback(): from then on
\* every query raises PendingRollbackError, an InvalidRequestError, which
\* find_user_by re-raises (db.py:96-97). Every Auth method starts with
\* find_user_by, so this is how each of them ends, unless it catches
\* Exception (get_user_from_session_id, destroy_session).
pending_rollback == "InvalidRequestError"

\* POST /users
app_register_user(us, n, broken, email, password) ==
    LET r == IF broken
             THEN [exc |-> pending_rollback, ret |-> None, users |-> us]
             ELSE register_user(us, email, password)
    IN
    IF r.exc = "None"
    THEN Response(200, None, Body(email, "user created", None), r.users, n, broken)
    ELSE IF r.exc = "ValueError"
    THEN Response(400, None, Body("", "email already registered", None), us, n, broken)
    ELSE Response(InternalServerError, None, NoBody, us, n,
                  broken \/ r.exc = "IntegrityError")

\* POST /sessions
login(us, n, broken, email, password) ==
    LET v == IF broken
             THEN [exc |-> pending_rollback, ret |-> FALSE]
             ELSE valid_login(us, email, password)
    IN
    IF v.exc # "None" THEN Response(InternalServerError, None, NoBody, us, n, broken)
    ELSE IF ~v.ret THEN Response(401, None, NoBody, us, n, broken)
    ELSE LET c == create_session(us, n, email) IN
         IF c.exc # "None" THEN Response(InternalServerError, None, NoBody, us, n, broken)
         ELSE Response(200, c.ret, Body(email, "logged in", None), c.users, c.uuids, broken)

\* AUTH.get_user_from_session_id as the handlers see it: its
\* `except Exception` also swallows the pending rollback
user_of_cookie(us, broken, session_id) ==
    IF broken THEN None ELSE get_user_from_session_id(us, session_id).ret

\* GET /profile
profile(us, n, broken, session_id) ==
    IF falsy_token(session_id) THEN Response(403, None, NoBody, us, n, broken)
    ELSE LET user == user_of_cookie(us, broken, session_id) IN
         IF user = None THEN Response(403, None, NoBody, us, n, broken)
         ELSE Response(200, None, Body(us[user].email, "", None), us, n, broken)

\* DELETE /sessions; url_for("index") is "/"
logout(us, n, broken, session_id) ==
    IF falsy_token(session_id) THEN Response(403, None, NoBody, us, n, broken)
    ELSE LET user == user_of_cookie(us, broken, session_id) IN
         IF user = None THEN Response(403, None, NoBody, us, n, broken)
         ELSE Response(302, None, Body("", "/", None),
                       destroy_session(us, us[user].id).users, n, broken)

\* POST /reset_password
app_get_reset_password_token(us, n, broken, email) ==
    IF falsy(email) THEN Response(400, None, NoBody, us, n, broken)
    ELSE LET r == IF broken
                  THEN [exc |-> pending_rollback, ret |-> None, users |-> us, uuids |-> n]
                  ELSE get_reset_password_token(us, n, email)
         IN
         IF r.exc = "ValueError" THEN Response(403, None, NoBody, us, n, broken)
         ELSE IF r.exc # "None" THEN Response(InternalServerError, None, NoBody, us, n, broken)
         ELSE Response(200, None, Body(email, "", r.ret), r.users, r.uuids, broken)

\* PUT /reset_password
app_update_password(us, n, broken, email, reset_token, new_password) ==
    IF falsy(email) \/ falsy_token(reset_token) \/ falsy(new_password)
    THEN Response(403, None, Body("", "Missing fields", None), us, n, broken)
    ELSE LET r == IF broken
                  THEN [exc |-> pending_rollback, ret |-> None, users |-> us]
                  ELSE update_password(us, reset_token, new_password)
         IN
         IF r.exc = "ValueError"
         THEN Response(403, None, Body("", "Invalid reset token", None), us, n, broken)
         ELSE IF r.exc # "None" THEN Response(InternalServerError, None, NoBody, us, n, broken)
         ELSE Response(200, None, Body(email, "Password updated", None), r.users, n, broken)

\* The record kept of a request and its response: the route, what the
\* request carried ("" or None where the route reads no such field), and
\* the response.
Exchange(op, email, password, token, cookie, r) ==
    [op |-> op, email |-> email, password |-> password, token |-> token,
     cookie |-> cookie, status |-> r.status, set_cookie |-> r.set_cookie,
     body |-> r.body]

\* Each request is one step: the handler's outcome becomes the next state.
\* The histories of the Auth-level calls are not kept for requests.

\* app.register_user
PostUsers ==
    \E email \in FormEmails, password \in FormPasswords :
        LET r == app_register_user(users, uuids, needs_rollback, email, password) IN
        /\ r.uuids <= MaxTokens
        /\ users' = r.users
        /\ uuids' = r.uuids
        /\ needs_rollback' = r.needs_rollback
        /\ last' = Exchange("POST /users", email, password, None, None, r)
        /\ UNCHANGED <<curpw, redeemed, replaced, dirty, race>>

\* app.login
PostSessions ==
    \E email \in FormEmails, password \in FormPasswords :
        LET r == login(users, uuids, needs_rollback, email, password) IN
        /\ r.uuids <= MaxTokens
        /\ users' = r.users
        /\ uuids' = r.uuids
        /\ needs_rollback' = r.needs_rollback
        /\ last' = Exchange("POST /sessions", email, password, None, None, r)
        /\ UNCHANGED <<curpw, redeemed, replaced, dirty, race>>

\* app.profile
GetProfile ==
    \E session_id \in FormTokens :
        LET r == profile(users, uuids, needs_rollback, session_id) IN
        /\ r.uuids <= MaxTokens
        /\ users' = r.users
        /\ uuids' = r.uuids
        /\ needs_rollback' = r.needs_rollback
        /\ last' = Exchange("GET /profile", "", "", None, session_id, r)
        /\ UNCHANGED <<curpw, redeemed, replaced, dirty, race>>

\* app.logout
DeleteSessions ==
    \E session_id \in FormTokens :
        LET r == logout(users, uuids, needs_rollback, session_id) IN
        /\ r.uuids <= MaxTokens
        /\ users' = r.users
        /\ uuids' = r.uuids
        /\ needs_rollback' = r.needs_rollback
        /\ last' = Exchange("DELETE /sessions", "", "", None, session_id, r)
        /\ UNCHANGED <<curpw, redeemed, replaced, dirty, race>>

\* app.get_reset_password_token
PostResetPassword ==
    \E email \in FormEmails :
        LET r == app_get_reset_password_token(users, uuids, needs_rollback, email) IN
        /\ r.uuids <= MaxTokens
        /\ users' = r.users
        /\ uuids' = r.uuids
        /\ needs_rollback' = r.needs_rollback
        /\ last' = Exchange("POST /reset_password", email, "", None, None, r)
        /\ UNCHANGED <<curpw, redeemed, replaced, dirty, race>>

\* app.update_password
PutResetPassword ==
    \E email \in FormEmails, reset_token \in FormTokens, new_password \in FormPasswords :
        LET r == app_update_password(users, uuids, needs_rollback,
                                     email, reset_token, new_password) IN
        /\ r.uuids <= MaxTokens
        /\ users' = r.users
        /\ uuids' = r.uuids
        /\ needs_rollback' = r.needs_rollback
        /\ last' = Exchange("PUT /reset_password", email, new_password, reset_token, None, r)
        /\ UNCHANGED <<curpw, redeemed, replaced, dirty, race>>

InitHttp ==
    /\ users = <<>>
    /\ uuids = 0
    /\ curpw = <<>>
    /\ redeemed = {}
    /\ replaced = {}
    /\ needs_rollback = FALSE
    /\ dirty = {}
    /\ race = <<>>
    /\ last = Exchange("init", "", "", None, None,
                       Response(200, None, NoBody, <<>>, 0, FALSE))

NextHttp ==
    \/ PostUsers
    \/ PostSessions
    \/ GetProfile
    \/ DeleteSessions
    \/ PostResetPassword
    \/ PutResetPassword

SpecHttp == InitHttp /\ [][NextHttp]_vars

\* ---------------------------------------------------------------- C11
\* C11: the response to every request to the six endpoints, whatever fields
\* and cookie it carries and whatever the store holds, is 200, a redirect or
\* a 4xx, never a 5xx.
C11_NoServerError ==
    last.status \in {200, 302} \cup (400..499)

\* ---------------------------------------------------------------- C12
\* the password is the one most recently set for the record with this email
ValidCredentials(us, email, password) ==
    \E i \in 1..Len(us) :
        us[i].email = email /\ us[i].hashed_password.pw = password

\* C12: POST /sessions with valid credentials answers 200 and sets a cookie
\* equal to the session_id then stored on that user's record; with invalid
\* credentials it answers 401, sets no cookie and leaves every session_id
\* as it was.
C12_Step ==
    last'.op = "POST /sessions" =>
        IF ValidCredentials(users, last'.email, last'.password)
        THEN /\ last'.status = 200
             /\ last'.set_cookie \in Tokens
             /\ \E i \in 1..Len(users') :
                    /\ users'[i].email = last'.email
                    /\ users'[i].session_id = last'.set_cookie
        ELSE /\ last'.status = 401
             /\ last'.set_cookie = None
             /\ Len(users') = Len(users)
             /\ \A i \in 1..Len(users) :
                    users'[i].session_id = users[i].session_id

C12_Login == [][C12_Step]_vars

\* ---------------------------------------------------------------- C13
\* the cookie is the current session_id of some user
Live(us, cookie) ==
    cookie \in Tokens /\ \E i \in 1..Len(us) : us[i].session_id = cookie

\* C13: GET /profile and DELETE /sessions answer 403 and change nothing when
\* the cookie is absent, empty or no user's current session_id; with a live
\* cookie GET /profile answers 200 with that user's email and changes
\* nothing, and DELETE /sessions clears that user's session_id, redirects
\* to "/" and leaves a state in which the same cookie gets 403.
C13_Step ==
    last'.op \in {"GET /profile", "DELETE /sessions"} =>
        IF ~Live(users, last'.cookie)
        THEN /\ last'.status = 403
             /\ users' = users
             /\ uuids' = uuids
        ELSE LET i == CHOOSE i \in 1..Len(users) : users[i].session_id = last'.cookie
             IN
             IF last'.op = "GET /profile"
             THEN /\ last'.status = 200
                  /\ last'.body.email = users[i].email
                  /\ users' = users
             ELSE /\ last'.status = 302
                  /\ last'.body.message = "/"
                  /\ users' = [users EXCEPT ![i].session_id = None]
                  /\ profile(users', uuids', needs_rollback', last'.cookie).status = 403
                  /\ logout(users', uuids', needs_rollback', last'.cookie).status = 403

C13_SessionCookie == [][C13_Step]_vars

\* ---------------------------------------------------------------- two calls in flight
\* Auth methods run step by step: the lookup (the find_user_by the method
\* starts with), then everything after it (draw a uuid, add_user or
\* update_user, return). Two calls run concurrently on the one AUTH object;
\* each step is atomic.

AuthCall(op, email, password, token, uid) ==
    [op |-> op, email |-> email, password |-> password, token |-> token, uid |-> uid]

RaceCalls ==
    {AuthCall("register_user", e, p, None, None) : e \in Emails, p \in Passwords}
    \cup {AuthCall("valid_login", e, p, None, None) : e \in Emails, p \in Passwords}
    \cup {AuthCall("create_session", e, "", None, None) : e \in Emails}
    \cup {AuthCall("get_user_from_session_id", "", "", t, None) : t \in Tokens \cup {None}}
    \cup {AuthCall("destroy_session", "", "", None, u) : u \in UserIds}
    \cup {AuthCall("get_reset_password_token", e, "", None, None) : e \in Emails}
    \cup {AuthCall("update_password", "", p, t, None) : t \in Tokens \cup {None}, p \in Passwords}

\* outcome of a call or of a step: exception, returned value, table and
\* uuid count afterwards
Outcome(exc, ret, us, n) == [exc |-> exc, ret |-> ret, users |-> us, uuids |-> n]

\* the call as one atomic step
atomic(us, n, c) ==
    CASE c.op = "register_user" ->
            LET r == register_user(us, c.email, c.password)
            IN Outcome(r.exc, r.ret, r.users, n)
      [] c.op = "valid_login" ->
            LET r == valid_login(us, c.email, c.password)
            IN Outcome(r.exc, IF r.ret THEN 1 ELSE 0, us, n)
      [] c.op = "create_session" -> create_session(us, n, c.email)
      [] c.op = "get_user_from_session_id" ->
            LET r == get_user_from_session_id(us, c.token)
            IN Outcome(r.exc, r.ret, us, n)
      [] c.op = "destroy_session" ->
            LET r == destroy_session(us, c.uid)
            IN Outcome(r.exc, r.ret, r.users, n)
      [] c.op = "get_reset_password_token" -> get_reset_password_token(us, n, c.email)
      [] c.op = "update_password" ->
            LET r == update_password(us, c.token, c.password)
            IN Outcome(r.exc, r.ret, r.users, n)

\* the lookup the method starts with
first_step(us, c) ==
    CASE c.op \in {"register_user", "valid_login", "create_session",
                   "get_reset_password_token"} -> find_user_by(us, "email", c.email)
      [] c.op = "get_user_from_session_id" ->
            IF c.token = None THEN [exc |-> "NoResultFound", id |-> None]
            ELSE find_user_by(us, "session_id", c.token)
      [] c.op = "destroy_session" -> find_user_by(us, "id", c.uid)
      [] c.op = "update_password" -> find_user_by(us, "reset_token", c.token)

\* the rest of the method, given what its lookup found
second_step(us, n, c, found) ==
    CASE c.op = "register_user" ->
            IF found.exc = "None" THEN Outcome("ValueError", None, us, n)
            ELSE IF found.exc # "NoResultFound" THEN Outcome(found.exc, None, us, n)
            ELSE Outcome("None", Len(us) + 1,
                         add_user(us, c.email, decode(hash_password(c.password))), n)
      [] c.op = "valid_login" ->
            IF found.exc = "NoResultFound" THEN Outcome("None", 0, us, n)
            ELSE IF found.exc # "None" THEN Outcome(found.exc, 0, us, n)
            ELSE IF ~has_encode(us[found.id].hashed_password)
                 THEN Outcome("AttributeError", 0, us, n)
            ELSE Outcome("None",
                         IF checkpw(c.password, encode(us[found.id].hashed_password))
                         THEN 1 ELSE 0, us, n)
      [] c.op = "create_session" ->
            IF found.exc = "NoResultFound" THEN Outcome("None", None, us, n)
            ELSE IF found.exc # "None" THEN Outcome(found.exc, None, us, n)
            ELSE LET session_id == generate_uuid(n)
                     upd == update_user(us, found.id, << <<"session_id", session_id>> >>)
                 IN Outcome(upd.exc, session_id, upd.users, n + 1)
      [] c.op = "get_user_from_session_id" ->
            IF found.exc # "None" THEN Outcome("None", None, us, n)
            ELSE Outcome("None", found.id, us, n)
      [] c.op = "destroy_session" ->
            IF found.exc # "None" THEN Outcome("None", None, us, n)
            ELSE Outcome("None", None,
                         update_user(us, found.id, << <<"session_id", None>> >>).users, n)
      [] c.op = "get_reset_password_token" ->
            IF found.exc = "NoResultFound" THEN Outcome("ValueError", None, us, n)
            ELSE IF found.exc # "None" THEN Outcome(found.exc, None, us, n)
            ELSE LET reset_token == generate_uuid(n)
                     upd == update_user(us, found.id, << <<"reset_token", reset_token>> >>)
                 IN Outcome(upd.exc, reset_token, upd.users, n + 1)
      [] c.op = "update_password" ->
            IF found.exc = "NoResultFound" THEN Outcome("ValueError", None, us, n)
            ELSE IF found.exc # "None" THEN Outcome(found.exc, None, us, n)
            ELSE LET upd == update_user(us, found.id,
                                << <<"hashed_password", hash_password(c.password)>>,
                                   <<"reset_token", None>> >>)
                 IN Outcome(upd.exc, None, upd.users, n)

\* Stores the two calls may start on, each reached by atomic calls from the
\* empty table: nothing; a registered; a logged in; a holding a reset token
StartStores ==
    LET s0 == Outcome("None", None, <<>>, 0)
        s1 == atomic(s0.users, s0.uuids, AuthCall("register_user", "a@x.com", "pw1", None, None))
        s2 == atomic(s1.users, s1.uuids, AuthCall("create_session", "a@x.com", "", None, None))
        s3 == atomic(s2.users, s2.uuids,
                     AuthCall("get_reset_password_token", "a@x.com", "", None, None))
    IN {[users |-> s.users, uuids |-> s.uuids] : s \in {s0, s1, s2, s3}}

Procs == {1, 2}

NotFoundYet == [exc |-> "", id |-> None]
NoOutcome == [exc |-> "", ret |-> None]

InitRace ==
    /\ \E s \in StartStores, c1 \in RaceCalls, c2 \in RaceCalls :
          /\ users = s.users
          /\ uuids = s.uuids
          /\ race = [start |-> s,
                     calls |-> <<c1, c2>>,
                     pc |-> <<"lookup", "lookup">>,
                     found |-> <<NotFoundYet, NotFoundYet>>,
                     out |-> <<NoOutcome, NoOutcome>>]
    /\ last = Call("init", "", "", None, None, None, "None", None)
    /\ curpw = <<>>
    /\ redeemed = {}
    /\ replaced = {}
    /\ needs_rollback = FALSE
    /\ dirty = {}

\* call p does its lookup
RaceLookup ==
    \E p \in Procs :
        /\ race.pc[p] = "lookup"
        /\ race' = [race EXCEPT !.pc[p] = "update",
                                !.found[p] = first_step(users, race.calls[p])]
        /\ UNCHANGED <<users, uuids, last, curpw, redeemed, replaced, needs_rollback, dirty>>

\* call p does the rest and returns
RaceUpdate ==
    \E p \in Procs :
        /\ race.pc[p] = "update"
        /\ LET r == second_step(users, uuids, race.calls[p], race.found[p]) IN
           /\ users' = r.users
           /\ uuids' = r.uuids
           /\ race' = [race EXCEPT !.pc[p] = "done",
                                   !.out[p] = [exc |-> r.exc, ret |-> r.ret]]
        /\ UNCHANGED <<last, curpw, redeemed, replaced, needs_rollback, dirty>>

NextRace ==
    \/ RaceLookup
    \/ RaceUpdate

SpecRace == InitRace /\ [][NextRace]_vars

\* both calls have returned
BothDone == race.pc = <<"done", "done">>

\* what the callers and the store end with
Ended == [out |-> race.out, users |-> users, uuids |-> uuids]

\* what they end with when call `first` runs to its end before the other starts
Serial(first) ==
    LET second == 3 - first
        r1 == atomic(race.start.users, race.start.uuids, race.calls[first])
        r2 == atomic(r1.users, r1.uuids, race.calls[second])
    IN [out |-> [p \in Procs |-> IF p = first
                                 THEN [exc |-> r1.exc, ret |-> r1.ret]
                                 ELSE [exc |-> r2.exc, ret |-> r2.ret]],
        users |-> r2.users, uuids |-> r2.uuids]

\* ---------------------------------------------------------------- C14
\* C14: when two register_user calls for the same email both do their lookup
\* before either inserts, both return a user and the table ends with two
\* records for that email.
C14_BothInsert ==
    (/\ BothDone
     /\ \A p \in Procs : /\ race.calls[p].op = "register_user"
                         /\ race.calls[p].email = race.calls[1].email
                         /\ race.found[p].exc = "NoResultFound") =>
        /\ \A p \in Procs : race.out[p].exc = "None" /\ race.out[p].ret \in 1..Len(users)
        /\ race.out[1].ret # race.out[2].ret
        /\ Cardinality(filter_by(users, "email", race.calls[1].email)) = 2

\* two registrations of one email have both passed the lookup and returned,
\* and two records carry that email
C14_Witness ==
    /\ BothDone
    /\ \A p \in Procs : /\ race.calls[p].op = "register_user"
                        /\ race.found[p].exc = "NoResultFound"
                        /\ race.out[p].exc = "None"
    /\ race.calls[1].email = race.calls[2].email
    /\ \E i, j \in 1..Len(users) : i # j /\ users[i].email = users[j].email

\* ---------------------------------------------------------------- C15
\* C15: for two concurrent calls of operations other than register_user,
\* what the callers get and what the store holds at the end is what one of
\* the two serial orders gives (stated for update_password calls that pass
\* a string as reset_token).
C15_Serializable ==
    (/\ BothDone
     /\ \A p \in Procs :
            /\ race.calls[p].op # "register_user"
            /\ race.calls[p].op = "update_password" => race.calls[p].token \in Tokens) =>
        Ended \in {Serial(1), Serial(2)}

\* ---------------------------------------------------------------- C16
\* C16: the record register_user creates has the hash of the password, no
\* session_id and no reset_token; as long as a record has no session_id no
\* session_id argument resolves to it, and it gets one only from
\* create_session for its email; as long as a record has no reset_token no
\* reset_token argument of update_password changes it, its hash stays what
\* it is, and it gets a reset_token only from get_reset_password_token for
\* its email.
C16_Fresh ==
    /\ (last.op = "register_user" /\ last.exc = "None") =>
          /\ last.ret = Len(users)
          /\ users[last.ret] =
                [id |-> last.ret, email |-> last.email,
                 hashed_password |-> [type |-> "str", pw |-> last.password],
                 session_id |-> None, reset_token |-> None]
    /\ \A i \in 1..Len(users) :
          /\ users[i].session_id = None =>
                \A t \in Tokens \cup {None} :
                    get_user_from_session_id(users, t).ret # i
          /\ users[i].reset_token = None =>
                \A t \in Tokens \cup {None}, x \in Passwords :
                    update_password(users, t, x).users[i] = users[i]

C16_Step ==
    \A i \in 1..Len(users) :
        /\ (/\ users[i].session_id = None
            /\ ~(last'.op = "create_session" /\ last'.email = users[i].email)) =>
               users'[i].session_id = None
        /\ users[i].reset_token = None =>
               /\ users'[i].hashed_password = users[i].hashed_password
               /\ ~(last'.op = "get_reset_password_token"
                    /\ last'.email = users[i].email) =>
                      users'[i].reset_token = None

C16_FreshRecord == [](C16_Fresh) /\ [][C16_Step]_vars

\* ---------------------------------------------------------------- C17
\* C17: destroy_session(uid) raises nothing; for a uid without a record it
\* leaves the table unchanged, for a uid with a record it sets that record's
\* session_id to None and changes nothing else.
C17_Step ==
    last'.op = "destroy_session" =>
        /\ last'.exc = "None"
        /\ last'.ret = None
        /\ IF last'.uid \in 1..Len(users)
           THEN users' = [users EXCEPT ![last'.uid].session_id = None]
           ELSE users' = users
        /\ uuids' = uuids

C17_DestroyFrame == [][C17_Step]_vars

\* destroy_session was called with an id no record has while a record holds
\* a live session
C17_Witness ==
    /\ last.op = "destroy_session"
    /\ last.uid \notin 1..Len(users)
    /\ \E i \in 1..Len(users) : users[i].session_id \in Tokens

\* ---------------------------------------------------------------- C18
\* C18: create_session(e) for an email without a record returns None, raises
\* nothing, draws no uuid and leaves every record unchanged.
C18_Step ==
    (last'.op = "create_session" /\ ~Registered(users, last'.email)) =>
        /\ last'.exc = "None"
        /\ last'.ret = None
        /\ users' = users
        /\ uuids' = uuids

C19_UniqueEmail ==
    \A i, j \in 1..Len(users) : users[i].email = users[j].email => i = j

\* both emails have a record and a registration of the second one again was
\* refused
C19_Witness ==
    /\ Len(users) = 2
    /\ last.op = "register_user"
    /\ last.exc = "ValueError"
    /\ last.email = users[2].email

\* ---------------------------------------------------------------- C20
\* C20: a record's password hash changes only in an update_password call
\* whose token is a reset token issued for that record and neither redeemed
\* nor replaced since; update_password with None, or with a value never
\* issued, raises ValueError and changes nothing, in every reachable state.
C20_Refused ==
    \A t \in {None} \cup (Tokens \ Issued), x \in Passwords :
        update_password(users, t, x) =
            [exc |-> "ValueError", ret |-> None, users |-> users]

C20_Step ==
    \A i \in 1..Len(users) :
        ~(/\ last'.op = "update_password"
          /\ last'.token \in Issued
          /\ last'.token \notin (redeemed \cup replaced)
          /\ users[i].reset_token = last'.token) =>
            users'[i].hashed_password = users[i].hashed_password

C20_OnlyByToken == [](C20_Refused) /\ [][C20_Step]_vars

\* ---------------------------------------------------------------- C21
\* C21: with a generator that never repeats a value, no two records hold
\* the same non-null session_id and no two hold the same non-null
\* reset_token, so a lookup by either matches at most one record.
C21_TokensUnique ==
    /\ \A i, j \in 1..Len(users) :
          /\ (users[i].session_id # None /\ users[i].session_id = users[j].session_id)
                => i = j
          /\ (users[i].reset_token # None /\ users[i].reset_token = users[j].reset_token)
                => i = j
    /\ \A t \in Tokens :
          /\ Cardinality(filter_by(users, "session_id", t)) <= 1
          /\ Cardinality(filter_by(users, "reset_token", t)) <= 1
          /\ find_user_by(users, "session_id", t).exc # "MultipleResultsFound"
          /\ find_user_by(users, "reset_token", t).exc # "MultipleResultsFound"

\* two records hold a session_id each
C21_Witness ==
    /\ Len(users) = 2
    /\ users[1].session_id \in Tokens
    /\ users[2].session_id \in Tokens

\* ---------------------------------------------------------------- C22
\* C22: an update_password that returns changes only the hash and the
\* reset_token of the one record its token selects, and every session_id
\* resolves as before; a get_reset_password_token that returns changes only
\* the reset_token of the record with that email; a create_session that
\* returns a session_id changes only the session_id of the record with that
\* email.
C22_Step ==
    /\ (last'.op = "update_password" /\ last'.exc = "None") =>
          /\ last'.uid \in 1..Len(users)
          /\ users[last'.uid].reset_token = last'.token
          /\ users' = [users EXCEPT
                          ![last'.uid].hashed_password = hashpw(last'.password),
                          ![last'.uid].reset_token = None]
          /\ \A s \in Tokens \cup {None} :
                get_user_from_session_id(users', s) = get_user_from_session_id(users, s)
    /\ (last'.op = "get_reset_password_token" /\ last'.exc = "None") =>
          /\ IdOf(users, last'.email) \in 1..Len(users)
          /\ users' = [users EXCEPT ![IdOf(users, last'.email)].reset_token = last'.ret]
    /\ (last'.op = "create_session" /\ last'.exc = "None" /\ last'.ret # None) =>
          /\ IdOf(users, last'.email) \in 1..Len(users)
          /\ users' = [users EXCEPT ![IdOf(users, last'.email)].session_id = last'.ret]

C22_Frame == [][C22_Step]_vars

\* a password was reset for a user with a live session while another user
\* is registered
C22_Witness ==
    /\ last.op = "update_password"
    /\ last.exc = "None"
    /\ last.token \in Tokens
    /\ Len(users) = 2
    /\ users[last.uid].session_id \in Tokens

\* ---------------------------------------------------------------- DB called directly
\* add_user, find_user_by and update_user of one DB object, update_user with
\* any keys. The one memoized Session keeps the User objects it loaded:
\* an attribute assigned and not committed stays on the object, every query
\* through the Session shows it, and the next commit() writes it.

\* column `key` of row i as the Session hands it out
session_attr(us, d, i, key) ==
    IF \E t \in d : t[1] = i /\ t[2] = key
    THEN (CHOOSE t \in d : t[1] = i /\ t[2] = key)[3]
    ELSE us[i][key]

\* the rows as the Session hands them out
session_rows(us, d) ==
    [i \in 1..Len(us) |->
        [id |-> us[i].id, email |-> us[i].email,
         hashed_password |-> us[i].hashed_password,
         session_id |-> session_attr(us, d, i, "session_id"),
         reset_token |-> session_attr(us, d, i, "reset_token")]]

\* the column assignments update_user's loop makes before it ends or raises
RECURSIVE assigned(_, _)
assigned(user_id, kwargs) ==
    IF kwargs = <<>> THEN {}
    ELSE IF ~hasattr(kwargs[1][1]) THEN {}
    ELSE (IF kwargs[1][1] \in UserAttrs
          THEN {<<user_id, kwargs[1][1], kwargs[1][2]>>} ELSE {})
         \cup assigned(user_id, Tail(kwargs))

\* assignments `new` on top of the uncommitted ones
overlay(d, new) ==
    {t \in d : ~\E n \in new : n[1] = t[1] /\ n[2] = t[2]} \cup new

\* DB.add_user on a Session holding d: commit() flushes d as well
session_add_user(us, d, email, hashed_password) ==
    [exc |-> "None", users |-> add_user(session_rows(us, d), email, hashed_password),
     dirty |-> {}]

\* DB.update_user on a Session holding d: the raise leaves the loop with the
\* assignments made so far on the object, without commit and without rollback
session_update_user(us, d, user_id, kwargs) ==
    LET view == session_rows(us, d)
        found == find_user_by(view, "id", user_id)
    IN
    IF found.exc # "None" THEN [exc |-> found.exc, users |-> us, dirty |-> d]
    ELSE LET r == set_attrs(view[found.id], kwargs) IN
         IF r.exc # "None"
         THEN [exc |-> r.exc, users |-> us,
               dirty |-> overlay(d, assigned(found.id, kwargs))]
         ELSE [exc |-> "None", users |-> [view EXCEPT ![found.id] = r.user],
               dirty |-> {}]

\* key/value pairs a caller may pass to update_user
KwPairs ==
    {<<k, v>> : k \in {"session_id", "reset_token"}, v \in Tokens \cup {None}}
    \cup {<<"no_such_attr", None>>, <<"metadata", None>>}

\* **kwargs: one or two pairs with different keys, in the order given
Kwargs ==
    {<<p>> : p \in KwPairs} \cup {x \in KwPairs \X KwPairs : x[1][1] # x[2][1]}

Keys(kwargs) == {kwargs[i][1] : i \in 1..Len(kwargs)}

\* The record kept of a DB call
DbCall(op, uid, kwargs, field, value, exc, row) ==
    [op |-> op, uid |-> uid, kwargs |-> kwargs, field |-> field, value |-> value,
     exc |-> exc, row |-> row]

InitDb ==
    /\ users = <<>>
    /\ uuids = 0
    /\ curpw = <<>>
    /\ redeemed = {}
    /\ replaced = {}
    /\ needs_rollback = FALSE
    /\ dirty = {}
    /\ race = <<>>
    /\ last = DbCall("init", None, <<>>, "", None, "None", None)

\* DB.add_user(email, hashed_password)
DbAddUser ==
    \E email \in Emails :
        LET r == session_add_user(users, dirty, email, decode(hash_password("pw1"))) IN
        /\ Len(users) < MaxDbRows
        /\ users' = r.users
        /\ dirty' = r.dirty
        /\ last' = DbCall("add_user", Len(r.users), <<>>, "", None, r.exc, None)
        /\ UNCHANGED <<uuids, curpw, redeemed, replaced, needs_rollback, race>>

\* DB.find_user_by(field=value): the id of the row it returns
DbFindUserBy ==
    \E field \in {"session_id", "reset_token"}, value \in Tokens \cup {None} :
        LET r == find_user_by(session_rows(users, dirty), field, value) IN
        /\ last' = DbCall("find_user_by", None, <<>>, field, value, r.exc, r.id)
        /\ UNCHANGED <<users, uuids, curpw, redeemed, replaced, needs_rollback,
                       dirty, race>>

\* DB.update_user(user_id, **kwargs)
DbUpdateUser ==
    \E user_id \in 1..(MaxDbRows + 1), kwargs \in Kwargs :
        LET r == session_update_user(users, dirty, user_id, kwargs) IN
        /\ users' = r.users
        /\ dirty' = r.dirty
        /\ last' = DbCall("update_user", user_id, kwargs, "", None, r.exc, None)
        /\ UNCHANGED <<uuids, curpw, redeemed, replaced, needs_rollback, race>>

NextDb ==
    \/ DbAddUser
    \/ DbFindUserBy
    \/ DbUpdateUser

SpecDb == InitDb /\ [][NextDb]_vars

\* ---------------------------------------------------------------- C23
\* row u with every pair of kwargs assigned
RECURSIVE with_fields(_, _)
with_fields(u, kwargs) ==
    IF kwargs = <<>> THEN u
    ELSE with_fields([u EXCEPT ![kwargs[1][1]] = kwargs[1][2]], Tail(kwargs))

\* C23: update_user(id, kwargs) for an existing id: with a key that is not a
\* column of the user record it raises ValueError and the record is
\* unchanged, as stored and as any later query returns it; with columns only
\* it returns and the stored table differs from the one before in exactly
\* those fields of that record. A row added by add_user leaves the rows
\* before it as they were stored.
C23_Step ==
    /\ (last'.op = "update_user" /\ last'.uid \in 1..Len(users)) =>
          IF Keys(last'.kwargs) \subseteq UserAttrs
          THEN /\ last'.exc = "None"
               /\ users' = [users EXCEPT
                               ![last'.uid] = with_fields(@, last'.kwargs)]
          ELSE /\ last'.exc = "ValueError"
               /\ users' = users
               /\ session_rows(users', dirty') = session_rows(users, dirty)
    /\ last'.op = "add_user" =>
          /\ Len(users') = Len(users) + 1
          /\ \A i \in 1..Len(users) : users'[i] = users[i]

C23_UpdateUser == [][C23_Step]_vars

\* ---------------------------------------------------------------- Basic authentication
\* api/v1/auth: strings are sequences of one-character strings.

\* longest path the model sends
MaxPathLen == 3

\* Python None where the model carries a string
NoneSeq == <<"<None>">>

\* Python None where the model carries a list of strings
NoneList == <<NoneSeq>>

\* sequences over S of length at most n
SeqsUpTo(S, n) == UNION {[1..k -> S] : k \in 0..n}

PathChars == {"/", "a", "b", "*"}
Paths == SeqsUpTo(PathChars, MaxPathLen) \cup {NoneSeq}

\* "/a/", "/a", "/a*", "*", "/", "/a/b", "/?", "a//"
ExcludedPaths ==
    {<<"/", "a", "/">>, <<"/", "a">>, <<"/", "a", "*">>, <<"*">>, <<"/">>,
     <<"/", "a", "/", "b">>, <<"/", "?">>, <<"a", "/", "/">>}

ExcludedLists ==
    {NoneList, <<>>} \cup {<<x>> : x \in ExcludedPaths}
    \cup (ExcludedPaths \X ExcludedPaths)

\* str.rstrip('/')
RECURSIVE rstrip(_)
rstrip(s) ==
    IF s # <<>> /\ s[Len(s)] = "/" THEN rstrip(SubSeq(s, 1, Len(s) - 1)) ELSE s

\* fnmatch.fnmatch(name, pat) on POSIX: '*' matches any run of characters,
\* '?' any one character, any other character itself
RECURSIVE fnmatch(_, _)
fnmatch(name, pat) ==
    IF pat = <<>> THEN name = <<>>
    ELSE IF pat[1] = "*"
         THEN fnmatch(name, Tail(pat)) \/ (name # <<>> /\ fnmatch(Tail(name), pat))
    ELSE IF name = <<>> THEN FALSE
    ELSE IF pat[1] = "?" THEN fnmatch(Tail(name), Tail(pat))
    ELSE name[1] = pat[1] /\ fnmatch(Tail(name), Tail(pat))

\* the for loop of require_auth over excluded_paths, path already stripped
RECURSIVE excluded(_, _)
excluded(path, excluded_paths) ==
    IF excluded_paths = <<>> THEN FALSE
    ELSE IF fnmatch(path, rstrip(excluded_paths[1])) THEN TRUE
    ELSE excluded(path, Tail(excluded_paths))

\* require_auth that compares the path as it came
require_auth_nostrip(path, excluded_paths) ==
    IF path = NoneSeq THEN TRUE
    ELSE IF excluded_paths = NoneList \/ excluded_paths = <<>> THEN TRUE
    ELSE ~excluded(path, excluded_paths)

\* Auth.require_auth
require_auth(path, excluded_paths) ==
    IF path = NoneSeq THEN TRUE
    ELSE IF excluded_paths = NoneList \/ excluded_paths = <<>> THEN TRUE
    ELSE ~excluded(rstrip(path), excluded_paths)

\* ---------------------------------------------------------------- BasicAuth
\* longest Base64 part of an Authorization header the model sends
MaxB64Len == 4

\* Python None where the model carries bytes or decoded text (a sequence of
\* byte values)
NoneBytes == <<-1>>

\* request is None / the request has no Authorization header
NoRequest == NoneSeq
NoHeader == <<"<no header>">>

\* "Basic ", and schemes that are not it: "Basic", "basic "
Basic_ == <<"B", "a", "s", "i", "c", " ">>
Schemes == {Basic_, <<"B", "a", "s", "i", "c">>, <<"b", "a", "s", "i", "c", " ">>}

B64Chars == {"Y", "T", "o", "6", "p", "/", "="}

Headers == {scheme \o b : scheme \in Schemes, b \in SeqsUpTo(B64Chars, MaxB64Len)}

Requests == {NoRequest, NoHeader} \cup Headers

\* Auth.authorization_header, for a request that is not None
authorization_header(request) ==
    IF request = NoHeader THEN NoneSeq ELSE request

\* str.startswith
startswith(s, prefix) ==
    Len(s) >= Len(prefix) /\ SubSeq(s, 1, Len(prefix)) = prefix

\* BasicAuth.extract_base64_authorization_header
extract_base64_authorization_header(authorization_header_) ==
    IF authorization_header_ = NoneSeq THEN NoneSeq
    ELSE IF ~startswith(authorization_header_, Basic_) THEN NoneSeq
    ELSE SubSeq(authorization_header_, Len(Basic_) + 1, Len(authorization_header_))

\* value of a character in the Base64 alphabet, 64 for a character outside it
b64value(ch) ==
    CASE ch = "Y" -> 24
      [] ch = "T" -> 19
      [] ch = "o" -> 40
      [] ch = "6" -> 58
      [] ch = "p" -> 41
      [] ch = "/" -> 63
      [] OTHER -> 64

\* base64.b64decode (binascii.a2b_base64, not strict): characters outside
\* the alphabet are skipped, '=' ends the data once it completes a quad
\* begun with two or more characters, data that ends inside a quad is an
\* error
RECURSIVE a2b_base64(_, _, _, _, _)
a2b_base64(data, quad_pos, pads, leftchar, out) ==
    IF data = <<>> THEN (IF quad_pos # 0 THEN NoneBytes ELSE out)
    ELSE IF data[1] = "="
         THEN IF quad_pos >= 2 /\ quad_pos + pads + 1 >= 4 THEN out
              ELSE a2b_base64(Tail(data), quad_pos,
                              IF quad_pos >= 2 THEN pads + 1 ELSE pads, leftchar, out)
    ELSE IF b64value(data[1]) >= 64
         THEN a2b_base64(Tail(data), quad_pos, pads, leftchar, out)
    ELSE LET this_ch == b64value(data[1]) IN
         CASE quad_pos = 0 -> a2b_base64(Tail(data), 1, 0, this_ch, out)
           [] quad_pos = 1 ->
                a2b_base64(Tail(data), 2, 0, this_ch % 16,
                           Append(out, leftchar * 4 + this_ch \div 16))
           [] quad_pos = 2 ->
                a2b_base64(Tail(data), 3, 0, this_ch % 4,
                           Append(out, leftchar * 16 + this_ch \div 4))
           [] quad_pos = 3 ->
                a2b_base64(Tail(data), 0, 0, 0, Append(out, leftchar * 64 + this_ch))

b64decode(s) == a2b_base64(s, 0, 0, 0, <<>>)

\* bytes.decode('utf-8') succeeds: every byte starts or continues a
\* well-formed sequence
RECURSIVE valid_utf8(_)
valid_utf8(bs) ==
    LET cont(i, lo, hi) == Len(bs) >= i /\ bs[i] >= lo /\ bs[i] <= hi
        rest(n) == valid_utf8(SubSeq(bs, n + 1, Len(bs)))
    IN
    IF bs = <<>> THEN TRUE
    ELSE IF bs[1] < 128 THEN rest(1)
    ELSE IF bs[1] >= 194 /\ bs[1] <= 223 THEN cont(2, 128, 191) /\ rest(2)
    ELSE IF bs[1] = 224 THEN cont(2, 160, 191) /\ cont(3, 128, 191) /\ rest(3)
    ELSE IF bs[1] = 237 THEN cont(2, 128, 159) /\ cont(3, 128, 191) /\ rest(3)
    ELSE IF bs[1] >= 225 /\ bs[1] <= 239
         THEN cont(2, 128, 191) /\ cont(3, 128, 191) /\ rest(3)
    ELSE IF bs[1] = 240
         THEN cont(2, 144, 191) /\ cont(3, 128, 191) /\ cont(4, 128, 191) /\ rest(4)
    ELSE IF bs[1] >= 241 /\ bs[1] <= 243
         THEN cont(2, 128, 191) /\ cont(3, 128, 191) /\ cont(4, 128, 191) /\ rest(4)
    ELSE IF bs[1] = 244
         THEN cont(2, 128, 143) /\ cont(3, 128, 191) /\ cont(4, 128, 191) /\ rest(4)
    ELSE FALSE

\* BasicAuth.decode_base64_authorization_header: the text as its UTF-8
\* bytes, None when b64decode or decode raises
decode_base64_authorization_header(base64_authorization_header) ==
    IF base64_authorization_header = NoneSeq THEN NoneBytes
    ELSE LET decoded_bytes == b64decode(base64_authorization_header) IN
         IF decoded_bytes = NoneBytes THEN NoneBytes
         ELSE IF ~valid_utf8(decoded_bytes) THEN NoneBytes
         ELSE decoded_bytes

\* ':'
Colon == 58

\* str.split(':', 1) of a text that contains ':'
RECURSIVE split1(_, _)
split1(text, before) ==
    IF text[1] = Colon THEN <<before, Tail(text)>>
    ELSE split1(Tail(text), Append(before, text[1]))

\* str.rsplit(':', 1) of a text that contains ':'
RECURSIVE rsplit1(_, _)
rsplit1(text, after) ==
    IF text[Len(text)] = Colon THEN <<SubSeq(text, 1, Len(text) - 1), after>>
    ELSE rsplit1(SubSeq(text, 1, Len(text) - 1), <<text[Len(text)]>> \o after)

\* extract_user_credentials that splits at the last ':'
extract_user_credentials_last(decoded_base64_authorization_header) ==
    IF decoded_base64_authorization_header = NoneBytes THEN <<NoneBytes, NoneBytes>>
    ELSE IF \A i \in 1..Len(decoded_base64_authorization_header) :
                decoded_base64_authorization_header[i] # Colon
         THEN <<NoneBytes, NoneBytes>>
    ELSE rsplit1(decoded_base64_authorization_header, <<>>)

\* BasicAuth.extract_user_credentials
extract_user_credentials(decoded_base64_authorization_header) ==
    IF decoded_base64_authorization_header = NoneBytes THEN <<NoneBytes, NoneBytes>>
    ELSE IF \A i \in 1..Len(decoded_base64_authorization_header) :
                decoded_base64_authorization_header[i] # Colon
         THEN <<NoneBytes, NoneBytes>>
    ELSE split1(decoded_base64_authorization_header, <<>>)

\* the users known to models.user.User: "a" with password ":" and "" with
\* password "a"
BasicUsers ==
    {[id |-> 1, email |-> <<97>>, password |-> <<Colon>>],
     [id |-> 2, email |-> <<>>, password |-> <<97>>]}

\* User.search(email): the user with this email, None without one
User_search(email) ==
    IF \E u \in BasicUsers : u.email = email
    THEN (CHOOSE u \in BasicUsers : u.email = email).id
    ELSE None

\* user.is_valid_password(pwd)
is_valid_password(user, pwd) ==
    \E u \in BasicUsers : u.id = user /\ u.password = pwd

\* BasicAuth.user_object_from_credentials: the id of the user, or None
user_object_from_credentials(user_email, user_pwd) ==
    IF user_email = NoneBytes THEN None
    ELSE IF user_pwd = NoneBytes THEN None
    ELSE LET user == User_search(user_email) IN
         IF user = None \/ ~is_valid_password(user, user_pwd) THEN None
         ELSE user

\* the methods current_user calls, in the order it calls them
Stages ==
    <<"authorization_header", "extract_base64_authorization_header",
      "decode_base64_authorization_header", "extract_user_credentials",
      "user_object_from_credentials">>

\* BasicAuth.current_user: what it returns and the methods it has called
current_user(request) ==
    LET Ran(n) == SubSeq(Stages, 1, n) IN
    IF request = NoRequest THEN [ret |-> None, ran |-> Ran(0)]
    ELSE LET auth_header == authorization_header(request) IN
    IF auth_header = NoneSeq THEN [ret |-> None, ran |-> Ran(1)]
    ELSE LET base64_auth == extract_base64_authorization_header(auth_header) IN
    IF base64_auth = NoneSeq THEN [ret |-> None, ran |-> Ran(2)]
    ELSE LET decoded_auth == decode_base64_authorization_header(base64_auth) IN
    IF decoded_auth = NoneBytes THEN [ret |-> None, ran |-> Ran(3)]
    ELSE LET cred == extract_user_credentials(decoded_auth) IN
    IF cred[1] = NoneBytes \/ cred[2] = NoneBytes THEN [ret |-> None, ran |-> Ran(4)]
    ELSE [ret |-> user_object_from_credentials(cred[1], cred[2]), ran |-> Ran(5)]

\* a call of one of the methods: its arguments, whether it has returned
\* (pc), what it returned and the stages it ran
BasicCall(op, pc, path, excluded_paths, request, ret, user, ran) ==
    [op |-> op, pc |-> pc, path |-> path, excluded_paths |-> excluded_paths,
     request |-> request, ret |-> ret, user |-> user, ran |-> ran]

\* the calls to make
RequireAuthCalls ==
    {BasicCall("require_auth", "call", path, excluded_paths, NoneSeq, FALSE, None, <<>>) :
        path \in Paths, excluded_paths \in ExcludedLists}

CurrentUserCalls ==
    {BasicCall("current_user", "call", NoneSeq, NoneList, request, FALSE, None, <<>>) :
        request \in Requests}

InitBasic ==
    /\ users = <<>>
    /\ uuids = 0
    /\ curpw = <<>>
    /\ redeemed = {}
    /\ replaced = {}
    /\ needs_rollback = FALSE
    /\ dirty = {}
    /\ race = <<>>
    /\ last \in RequireAuthCalls \cup CurrentUserCalls

\* auth.require_auth(path, excluded_paths)
RequireAuth ==
    /\ last.op = "require_auth"
    /\ last.pc = "call"
    /\ last' = [last EXCEPT !.pc = "done",
                            !.ret = require_auth(last.path, last.excluded_paths)]
    /\ UNCHANGED <<users, uuids, curpw, redeemed, replaced, needs_rollback,
                   dirty, race>>

\* basic_auth.current_user(request)
CurrentUser ==
    /\ last.op = "current_user"
    /\ last.pc = "call"
    /\ LET r == current_user(last.request) IN
       last' = [last EXCEPT !.pc = "done", !.user = r.ret, !.ran = r.ran]
    /\ UNCHANGED <<users, uuids, curpw, redeemed, replaced, needs_rollback,
                   dirty, race>>

NextBasic ==
    \/ RequireAuth
    \/ CurrentUser

SpecBasic == InitBasic /\ [][NextBasic]_vars

\* ---------------------------------------------------------------- C24
\* s without its trailing slashes: the prefix of s that does not end in "/"
\* and is followed by slashes only
Stripped(s) ==
    LET k == CHOOSE k \in 0..Len(s) :
                 /\ k = 0 \/ s[k] # "/"
                 /\ \A j \in (k + 1)..Len(s) : s[j] = "/"
    IN SubSeq(s, 1, k)

\* name matches the wildcard pattern pat: the characters of pat take up
\* consecutive stretches of name, '*' any stretch, every other character a
\* stretch of one character, which is the same character unless it is '?'
WildcardMatch(name, pat) ==
    \E cut \in [0..Len(pat) -> 0..Len(name)] :
        /\ cut[0] = 0
        /\ cut[Len(pat)] = Len(name)
        /\ \A i \in 1..Len(pat) :
              IF pat[i] = "*" THEN cut[i] >= cut[i - 1]
              ELSE /\ cut[i] = cut[i - 1] + 1
                   /\ pat[i] = "?" \/ name[cut[i]] = pat[i]

MaxEntries == 2

\* PII_FIELDS
PII_FIELDS ==
    << <<"n", "a", "m", "e">>, <<"e", "m", "a", "i", "l">>, <<"p", "h", "o", "n", "e">>,
       <<"s", "s", "n">>, <<"p", "a", "s", "s", "w", "o", "r", "d">> >>

\* RedactingFormatter.REDACTION
REDACTION == <<"*", "*", "*">>

\* RedactingFormatter.SEPARATOR, and another separator filter_datum is given
SEPARATOR == ";"
Separators == {SEPARATOR, ","}

\* the field lists filter_datum is given
FieldLists == {PII_FIELDS, << <<"s", "s", "n">> >>}

\* column names of a row: listed in PII_FIELDS or not
Names ==
    {<<"n", "a", "m", "e">>, <<"s", "s", "n">>, <<"u", "s", "e", "r", "n", "a", "m", "e">>,
     <<"i", "p">>}

\* column values: "b", "b c", ""
Values == {<<"b">>, <<"b", " ", "c">>, <<>>}

Entries == [name : Names, value : Values]

\* the rows main() reads
Rows == SeqsUpTo(Entries, MaxEntries)

\* f"{k}={v}"
entry(k, v) == k \o <<"=">> \o v

\* joiner.join(f"{k}={v}" for k, v in row.items())
RECURSIVE join(_, _)
join(joiner, row) ==
    IF row = <<>> THEN <<>>
    ELSE IF Len(row) = 1 THEN entry(row[1].name, row[1].value)
    ELSE entry(row[1].name, row[1].value) \o joiner \o join(joiner, Tail(row))

\* the end of the longest run of [^ {separator}] that starts at message[i]
RECURSIVE run_end(_, _, _)
run_end(message, separator, i) ==
    IF i > Len(message) \/ message[i] = " " \/ message[i] = separator THEN i
    ELSE run_end(message, separator, i + 1)

\* the match of ({"|".join(fields)})=([^ {separator}]+) at message[i]: the
\* first field, in the order of the list, that is followed by '=' and by one
\* value character or more; k = 0 without a match
RECURSIVE match_at(_, _, _, _, _)
match_at(fields, message, separator, i, k) ==
    IF k > Len(fields) THEN [k |-> 0, end |-> i]
    ELSE LET after == i + Len(fields[k]) + 1
             stop == run_end(message, separator, after)
         IN
         IF /\ after - 1 <= Len(message)
            /\ SubSeq(message, i, after - 1) = fields[k] \o <<"=">>
            /\ stop > after
         THEN [k |-> k, end |-> stop]
         ELSE match_at(fields, message, separator, i, k + 1)

\* re.sub(pattern, lambda m: f'{m.group(1)}={redaction}', message): the
\* matches are replaced from left to right and do not overlap
RECURSIVE re_sub(_, _, _, _, _)
re_sub(fields, redaction, message, separator, i) ==
    IF i > Len(message) THEN <<>>
    ELSE LET m == match_at(fields, message, separator, i, 1) IN
         IF m.k # 0
         THEN fields[m.k] \o <<"=">> \o redaction
                \o re_sub(fields, redaction, message, separator, m.end)
         ELSE <<message[i]>> \o re_sub(fields, redaction, message, separator, i + 1)

\* filter_datum(fields, redaction, message, separator)
filter_datum(fields, redaction, message, separator) ==
    re_sub(fields, redaction, message, separator, 1)

\* a call of filter_datum on the message built from a row
LoggerCall(pc, fields, row, separator, joiner, ret) ==
    [op |-> "filter_datum", pc |-> pc, fields |-> fields, row |-> row,
     separator |-> separator, joiner |-> joiner,
     message |-> join(joiner, row), ret |-> ret]

LoggerCalls ==
    {LoggerCall("call", fields, row, separator,
                IF space THEN <<separator, " ">> ELSE <<separator>>, <<>>) :
        fields \in FieldLists, row \in Rows,
        separator \in Separators, space \in BOOLEAN}

InitLogger ==
    /\ users = <<>>
    /\ uuids = 0
    /\ curpw = <<>>
    /\ redeemed = {}
    /\ replaced = {}
    /\ needs_rollback = FALSE
    /\ dirty = {}
    /\ race = <<>>
    /\ last \in LoggerCalls

\* filter_datum(fields, "***", message, separator), as
\* RedactingFormatter.format calls it
FilterDatum ==
    /\ last.op = "filter_datum"
    /\ last.pc = "call"
    /\ last' = [last EXCEPT !.pc = "done",
                            !.ret = filter_datum(last.fields, REDACTION,
                                                 last.message, last.separator)]
    /\ UNCHANGED <<users, uuids, curpw, redeemed, replaced, needs_rollback,
                   dirty, race>>

NextLogger ==
    \/ FilterDatum

SpecLogger == InitLogger /\ [][NextLogger]_vars

\* the row with the value of every column named in fields replaced
Redacted(fields, redaction, row) ==
    [i \in 1..Len(row) |->
        IF \E k \in 1..Len(fields) : fields[k] = row[i].name
        THEN [name |-> row[i].name, value |-> redaction]
        ELSE row[i]]

\* C26: for a message of name=value entries joined by the separator, with or
\* without a space after it, filter_datum replaces the whole value of every
\* entry whose name is one of the fields by the redaction string and leaves
\* the other entries as they are.
C26_FilterDatum ==
    (last.op = "filter_datum" /\ last.pc = "done") =>
        last.ret = join(last.joiner, Redacted(last.fields, REDACTION, last.row))
====
